---------------------------- MODULE Spec2Model ----------------------------
(***************************************************************************)
(* Model of the epoch permuter (code/permuter/Permuter.cpp): epoch         *)
(* segmentation of a recorded block-I/O trace (InitDataVector,             *)
(* InitDataVectorSoft), the per-epoch overlap tracker                      *)
(* (FindOverlapsAndInsert), barrier splitting, and the memoised            *)
(* crash-state generation loops (GenerateCrashState,                       *)
(* GenerateSectorCrashState).                                              *)
(*                                                                         *)
(* Numbers.  TLC's integers are 32-bit signed.  Timestamps are counted in  *)
(* units of 1,250,000,000 ns, so that kSoftEpochMaxDelayNs (2,500,000,000) *)
(* is 2 units.  unsigned int arithmetic is only ever out of range in       *)
(* write_sector + size - 1 when both are 0; that wrap is kept (USub1).     *)
(***************************************************************************)
EXTENDS Integers, Sequences, FiniteSets, Bags, TLC

\* ------------------------------------------------------------- bounds
\* Longest recorded trace handed to the segmenters.
MaxLen == 3
\* Longest sector list handed to CoalesceSectors or made by ToSectors.
MaxSectors == 3
\* Entries of a memo that earlier calls have filled.
PrefillSize == 501

\* ---------------------------------------------------------- constants
kRetryMultiplier == 2
kMinRetries == 1000
kKernelSectorSize == 512
\* kSoftEpochMaxDelayNs = 2500000000 ns, in units of 1,250,000,000 ns.
kSoftEpochMaxDelay == 2
\* Largest value of an unsigned int as far as the model can tell: every
\* other sector number it is compared with is far below it.
UIntMax == 2147483647

VARIABLES
    data,                     \* the trace given to the latest segmenter call
    cleared,                  \* how many epochs its epochs_.clear() dropped
    memo_at_init,             \* the memo as that call found it
    mode,                     \* which segmenter ran last: "none", "flag", "soft"
    epochs_,                  \* Permuter::epochs_
    sector_size_,             \* Permuter::sector_size_
    completed_permutations_,  \* Permuter::completed_permutations_ (the memo)
    pc,                       \* "idle", or the generation loop that is running
    retries,                  \* loop local
    max_retries,              \* loop local
    crash_state,              \* loop local of GenerateCrashState (epoch_ops)
    res,                      \* the caller's result vector (DiskWriteData)
    log_crash_state,          \* log_data.crash_state
    new_state,                \* loop local: what the hook returned last
    crash_state_hash,         \* loop local: the hash of the last proposal
    ret,                      \* what the call that just finished returned
                              \* (FALSE while a call is running)
    returned,                 \* bag of the hashes of the calls that returned true
    sector_memoised,          \* the hashes GenerateSectorCrashState calls put
                              \* into the memo
    to_sectors,               \* the latest epoch_op::ToSectors call: its
                              \* epoch_op, its argument and how it ended
    coalesce                  \* the latest CoalesceSectors call: its argument
                              \* and its result

segvars == <<data, cleared, memo_at_init, mode, epochs_, sector_size_>>
genvars == <<completed_permutations_, pc, retries, max_retries, new_state,
             crash_state, crash_state_hash, res, log_crash_state, ret,
             returned, sector_memoised>>
secvars == <<to_sectors, coalesce>>
vars == <<data, cleared, memo_at_init, mode, epochs_, sector_size_,
          completed_permutations_, pc, retries, max_retries, new_state, crash_state, crash_state_hash, res,
          log_crash_state, ret, returned, sector_memoised, to_sectors,
          coalesce>>

\* ------------------------------------------------------- disk_write
\* A disk_write is [write_sector, size, time_ns, flags, data]; data is 0
\* for an empty buffer and a payload id otherwise.
has_flush_flag(dw) == "FLUSH" \in dw.flags
has_flush_seq_flag(dw) == "FLUSH_SEQ" \in dw.flags
has_FUA_flag(dw) == "FUA" \in dw.flags
has_write_flag(dw) == "WRITE" \in dw.flags
is_meta(dw) == "META" \in dw.flags
is_checkpoint(dw) == "CHECKPOINT" \in dw.flags
is_barrier(dw) == dw.flags \cap {"FLUSH", "FLUSH_SEQ", "FUA"} # {}
clear_flush_flag(dw) == [dw EXCEPT !.flags = @ \ {"FLUSH"}]
clear_flush_seq_flag(dw) == [dw EXCEPT !.flags = @ \ {"FLUSH_SEQ"}]
clear_data(dw) == [dw EXCEPT !.data = 0]

BoolToInt(b) == IF b THEN 1 ELSE 0

\* x - 1 in unsigned int arithmetic.
USub1(x) == IF x = 0 THEN UIntMax ELSE x - 1

\* ------------------------------------------------------ AddNewEpoch
NewEpoch ==
    [ops |-> <<>>, num_meta |-> 0, overlaps |-> FALSE, has_barrier |-> FALSE,
     checkpoint_epoch |-> 0]

AddNewEpoch(eps) == Append(eps, NewEpoch)

\* The epoch current_epoch points at is always the last one.
SetBack(eps, e) == [eps EXCEPT ![Len(eps)] = e]
Back(eps) == eps[Len(eps)]

\* -------------------------------------------- barrier splitting
CanSplitBarrier_NoFUACheck(barrier_op) ==
    /\ has_flush_flag(barrier_op) \/ has_flush_seq_flag(barrier_op)
    /\ has_write_flag(barrier_op)
    /\ barrier_op.size > 0

CanSplitBarrier(barrier_op) ==
    /\ has_flush_flag(barrier_op) \/ has_flush_seq_flag(barrier_op)
    /\ has_write_flag(barrier_op)
    /\ ~has_FUA_flag(barrier_op)
    /\ barrier_op.size > 0

SplitBarrier_KeepFlush(barrier_op) ==
    [first |-> clear_data([barrier_op EXCEPT !.size = 0]), second |-> barrier_op]

SplitBarrier(barrier_op) ==
    LET s1 == IF has_flush_flag(barrier_op)
              THEN clear_flush_flag(barrier_op) ELSE barrier_op
        s2 == IF has_flush_seq_flag(barrier_op)
              THEN clear_flush_seq_flag(s1) ELSE s1
    IN [first |-> clear_data([barrier_op EXCEPT !.size = 0]), second |-> s2]

\* ------------------------------------------- FindOverlapsAndInsert
\* ranges is the list of <<first, second>> pairs; the result is whether an
\* overlap was found and the list as the call leaves it.
InsertAt(s, i, x) == SubSeq(s, 1, i - 1) \o <<x>> \o SubSeq(s, i, Len(s))

RECURSIVE ScanRanges(_, _, _, _)
ScanRanges(start, end, ranges, i) ==
    IF i > Len(ranges)
    THEN [found |-> FALSE, ranges |-> Append(ranges, <<start, end>>)]
    ELSE LET r == ranges[i] IN
         IF \/ r[1] <= start /\ r[2] >= start
            \/ r[1] <= end /\ r[2] >= end
            \/ r[1] >= start /\ r[2] <= end
         THEN LET lo == IF r[1] > start THEN start ELSE r[1]
                  hi == IF r[2] < end THEN end ELSE r[2]
              IN [found |-> TRUE, ranges |-> [ranges EXCEPT ![i] = <<lo, hi>>]]
         ELSE IF r[1] > end
              THEN [found |-> FALSE,
                    ranges |-> InsertAt(ranges, i, <<start, end>>)]
              ELSE ScanRanges(start, end, ranges, i + 1)

FindOverlapsAndInsert(dw, ranges) ==
    ScanRanges(dw.write_sector, USub1(dw.write_sector + dw.size), ranges, 1)

\* ----------------------------------------------- InitDataVector
\* The walk's locals: the epoch vector, whether current_epoch is non-NULL
\* (it then points at the last epoch), epoch_overlaps,
\* curr_checkpoint_epoch and abs_index.
PushOp(e, abs_index, op) ==
    [e EXCEPT !.ops = Append(@, [abs_index |-> abs_index, op |-> op]),
              !.num_meta = @ + BoolToInt(is_meta(op))]

FlagStart ==
    [epochs |-> <<>>, current |-> FALSE, epoch_overlaps |-> <<>>,
     curr_checkpoint_epoch |-> -1, abs_index |-> 0]

\* Lines 256-262: open an epoch when current_epoch is NULL.
FlagOpen(st) ==
    IF st.current THEN st
    ELSE [st EXCEPT
            !.epochs = Append(@, [NewEpoch EXCEPT !.checkpoint_epoch =
                                      st.curr_checkpoint_epoch]),
            !.epoch_overlaps = <<>>,
            !.current = TRUE]

FlagCheckpoint_OnlyIfEmpty(st) ==
    [st EXCEPT
       !.curr_checkpoint_epoch = @ + 1,
       !.epochs = IF Len(Back(@).ops) = 0
                  THEN SetBack(@, [Back(@) EXCEPT !.checkpoint_epoch =
                                      st.curr_checkpoint_epoch + 1])
                  ELSE @,
       !.abs_index = @ + 1]

FlagCheckpoint_NoAdvance(st) ==
    [st EXCEPT
       !.curr_checkpoint_epoch = @ + 1,
       !.epochs = SetBack(@, [Back(@) EXCEPT !.checkpoint_epoch =
                                 st.curr_checkpoint_epoch + 1])]

\* Lines 272-280: a checkpoint record.
FlagCheckpoint(st) ==
    [st EXCEPT
       !.curr_checkpoint_epoch = @ + 1,
       !.epochs = SetBack(@, [Back(@) EXCEPT !.checkpoint_epoch =
                                 st.curr_checkpoint_epoch + 1]),
       !.abs_index = @ + 1]

\* Lines 282-291: a write that is no barrier.
FlagWrite(st, op) ==
    LET f == FindOverlapsAndInsert(op, st.epoch_overlaps)
        e == Back(st.epochs)
        e1 == IF f.found THEN [e EXCEPT !.overlaps = TRUE] ELSE e
    IN [st EXCEPT
          !.epoch_overlaps = f.ranges,
          !.epochs = SetBack(@, PushOp(e1, st.abs_index, op)),
          !.abs_index = @ + 1]

FlagSplit_NullsCurrent(st, op) ==
    LET split == SplitBarrier(op)
        closed == [PushOp(Back(st.epochs), st.abs_index, split.first)
                      EXCEPT !.has_barrier = TRUE]
        f == FindOverlapsAndInsert(split.second, <<>>)
        opened == PushOp([NewEpoch EXCEPT !.checkpoint_epoch =
                             st.curr_checkpoint_epoch],
                         st.abs_index, split.second)
    IN [st EXCEPT
          !.epochs = Append(SetBack(@, closed), opened),
          !.epoch_overlaps = f.ranges,
          !.abs_index = @ + 1,
          !.current = FALSE]

\* Lines 310-333: a barrier that is split.
FlagSplit(st, op) ==
    LET split == SplitBarrier(op)
        closed == [PushOp(Back(st.epochs), st.abs_index, split.first)
                      EXCEPT !.has_barrier = TRUE]
        f == FindOverlapsAndInsert(split.second, <<>>)
        opened == PushOp([NewEpoch EXCEPT !.checkpoint_epoch =
                             st.curr_checkpoint_epoch],
                         st.abs_index, split.second)
    IN [st EXCEPT
          !.epochs = Append(SetBack(@, closed), opened),
          !.epoch_overlaps = f.ranges,
          !.abs_index = @ + 1]

FlagBarrier_NoFlag(st, op) ==
    [st EXCEPT
       !.epochs = SetBack(@, PushOp(Back(@), st.abs_index, op)),
       !.abs_index = @ + 1,
       !.current = FALSE]

\* Lines 334-346: a barrier that ends the epoch as it is.
FlagBarrier(st, op) ==
    [st EXCEPT
       !.epochs = SetBack(@, [PushOp(Back(@), st.abs_index, op)
                                 EXCEPT !.has_barrier = TRUE]),
       !.abs_index = @ + 1,
       !.current = FALSE]

\* One record of the trace.  current_epoch is only NULL where the outer loop
\* starts over (at the first record and after FlagBarrier), so opening the
\* epoch before each record is what the nested loops do.
FlagStep(st, op) ==
    LET s == FlagOpen(st) IN
    IF ~is_barrier(op)
    THEN IF is_checkpoint(op) THEN FlagCheckpoint(s) ELSE FlagWrite(s, op)
    ELSE IF CanSplitBarrier(op) THEN FlagSplit(s, op) ELSE FlagBarrier(s, op)

\* The locals after the first n records of d.
RECURSIVE FlagWalk(_, _)
FlagWalk(d, n) == IF n = 0 THEN FlagStart ELSE FlagStep(FlagWalk(d, n - 1), d[n])

\* ------------------------------------------- InitDataVectorSoft
SoftStart ==
    [epochs |-> AddNewEpoch(<<>>), epoch_overlaps |-> <<>>,
     curr_checkpoint_epoch |-> -1, abs_index |-> 0, last_time_seen |-> 0]

SoftCheckpoint_Always(st) ==
    [st EXCEPT
       !.curr_checkpoint_epoch = @ + 1,
       !.epochs = SetBack(@, [Back(@) EXCEPT !.checkpoint_epoch =
                                 st.curr_checkpoint_epoch + 1])]

\* Lines 384-390: a checkpoint record.
SoftCheckpoint(st) ==
    [st EXCEPT
       !.curr_checkpoint_epoch = @ + 1,
       !.epochs = IF Len(Back(@).ops) = 0
                  THEN SetBack(@, [Back(@) EXCEPT !.checkpoint_epoch =
                                      st.curr_checkpoint_epoch + 1])
                  ELSE @]

SoftGap_Strict(last_time_seen, cur_time) ==
    last_time_seen > 0 /\ cur_time - last_time_seen > kSoftEpochMaxDelay

\* Line 397: whether a write opens a new soft epoch.
SoftGap(last_time_seen, cur_time) ==
    last_time_seen > 0 /\ cur_time - last_time_seen >= kSoftEpochMaxDelay

\* Lines 391-411: a write that is no barrier.
SoftWrite(st, op) ==
    LET gap == SoftGap(st.last_time_seen, op.time_ns)
        eps == IF gap
               THEN Append(st.epochs, [NewEpoch EXCEPT !.checkpoint_epoch =
                                          st.curr_checkpoint_epoch])
               ELSE st.epochs
        ovl == IF gap THEN <<>> ELSE st.epoch_overlaps
        f == FindOverlapsAndInsert(op, ovl)
        e == PushOp(Back(eps), st.abs_index, op)
        e1 == IF f.found THEN [e EXCEPT !.overlaps = TRUE] ELSE e
    IN [st EXCEPT
          !.epochs = SetBack(eps, e1),
          !.epoch_overlaps = f.ranges,
          !.last_time_seen = op.time_ns]

\* Lines 416-436 and 450: a barrier that is split.
SoftSplit(st, op) ==
    LET split == SplitBarrier(op)
        closed == [PushOp(Back(st.epochs), st.abs_index, split.first)
                      EXCEPT !.has_barrier = TRUE]
        f == FindOverlapsAndInsert(split.second, <<>>)
        opened == PushOp([NewEpoch EXCEPT !.checkpoint_epoch =
                             st.curr_checkpoint_epoch],
                         st.abs_index, split.second)
    IN [st EXCEPT
          !.epochs = Append(SetBack(@, closed), opened),
          !.epoch_overlaps = f.ranges,
          !.last_time_seen = 0]

\* Lines 437-450: a barrier that ends the epoch as it is.
SoftBarrier(st, op) ==
    LET closed == [PushOp(Back(st.epochs), st.abs_index, op)
                      EXCEPT !.has_barrier = TRUE]
    IN [st EXCEPT
          !.epochs = Append(SetBack(@, closed),
                            [NewEpoch EXCEPT !.checkpoint_epoch =
                                st.curr_checkpoint_epoch]),
          !.epoch_overlaps = <<>>,
          !.last_time_seen = 0]

\* Lines 383-455: one record of the trace.
SoftStep(st, op) ==
    LET s == IF is_checkpoint(op) THEN SoftCheckpoint(st)
             ELSE IF ~is_barrier(op) THEN SoftWrite(st, op)
             ELSE IF CanSplitBarrier(op) THEN SoftSplit(st, op)
             ELSE SoftBarrier(st, op)
    IN [s EXCEPT !.abs_index = @ + 1]

\* The locals after the first n records of d.
RECURSIVE SoftWalk(_, _)
SoftWalk(d, n) == IF n = 0 THEN SoftStart ELSE SoftStep(SoftWalk(d, n - 1), d[n])

\* Lines 457-465: drop an empty last epoch that brings no new checkpoint.
SoftFinish(eps) ==
    IF /\ Len(eps) > 1
       /\ eps[Len(eps)].checkpoint_epoch = eps[Len(eps) - 1].checkpoint_epoch
       /\ Len(Back(eps).ops) = 0
    THEN SubSeq(eps, 1, Len(eps) - 1)
    ELSE eps

\* ------------------------------------------------------ the traces
\* The records a trace is drawn from.  A checkpoint record carries no
\* payload and no barrier flag.
W(sector, size, time, flags) ==
    [write_sector |-> sector, size |-> size, time_ns |-> time,
     flags |-> flags, data |-> IF size > 0 THEN 1 + sector ELSE 0]

Writes ==
    {W(0, 1, 1, {"WRITE"}),
     W(0, 2, 1, {"WRITE"}),
     W(1, 1, 1, {"WRITE"}),
     W(0, 0, 1, {"WRITE"}),
     W(0, 1, 0, {"WRITE"}),
     W(0, 1, 3, {"WRITE", "META"})}

Barriers ==
    {W(0, 2, 1, {"WRITE", "FLUSH"}),
     W(1, 0, 1, {"WRITE", "FLUSH"}),
     W(1, 1, 1, {"WRITE", "FLUSH", "FUA"}),
     W(1, 1, 1, {"WRITE", "FLUSH_SEQ"}),
     W(0, 1, 1, {"FLUSH"}),
     W(0, 1, 1, {"WRITE", "FLUSH", "FLUSH_SEQ", "META"})}

Checkpoints == {W(0, 0, 1, {"CHECKPOINT"})}

Records == Writes \cup Barriers \cup Checkpoints

Traces == UNION {[1..n -> Records] : n \in 0..MaxLen}

\* The traces a Permuter that holds epochs is initialised with again.
ReTraces ==
    {<<>>,
     <<W(0, 1, 1, {"WRITE"})>>,
     <<W(1, 1, 1, {"WRITE", "FLUSH", "FUA"})>>}

SectorSizes == {1, 2}

\* ------------------------------------------------------- actions
InitDataVector_NoClear(sector_size, d) ==
    /\ pc = "idle"
    /\ data' = d
    /\ sector_size_' = sector_size
    /\ cleared' = 0
    /\ memo_at_init' = completed_permutations_
    /\ epochs_' = epochs_ \o FlagWalk(d, Len(d)).epochs
    /\ mode' = "flag"
    /\ UNCHANGED <<genvars, secvars>>

InitDataVector(sector_size, d) ==
    /\ pc = "idle"
    /\ data' = d
    /\ sector_size_' = sector_size
    /\ cleared' = Len(epochs_)
    /\ memo_at_init' = completed_permutations_
    /\ epochs_' = FlagWalk(d, Len(d)).epochs
    /\ mode' = "flag"
    /\ UNCHANGED <<genvars, secvars>>

InitDataVectorSoft_ClearsMemo(sector_size, d) ==
    /\ pc = "idle"
    /\ data' = d
    /\ sector_size_' = sector_size
    /\ cleared' = Len(epochs_)
    /\ memo_at_init' = completed_permutations_
    /\ epochs_' = SoftFinish(SoftWalk(d, Len(d)).epochs)
    /\ mode' = "soft"
    /\ completed_permutations_' = {}
    /\ UNCHANGED <<pc, retries, max_retries, new_state, crash_state,
                   crash_state_hash, res, log_crash_state, ret, returned,
                   sector_memoised, secvars>>

InitDataVectorSoft(sector_size, d) ==
    /\ pc = "idle"
    /\ data' = d
    /\ sector_size_' = sector_size
    /\ cleared' = Len(epochs_)
    /\ memo_at_init' = completed_permutations_
    /\ epochs_' = SoftFinish(SoftWalk(d, Len(d)).epochs)
    /\ mode' = "soft"
    /\ UNCHANGED <<genvars, secvars>>

\* No sector call has been made.
NoSectorCalls ==
    /\ to_sectors = [eo |-> [abs_index |-> 0, op |-> W(0, 0, 0, {})],
                     sector_size |-> 0, status |-> "none", res |-> <<>>,
                     write_data |-> <<>>]
    /\ coalesce = [sector_list |-> <<>>, status |-> "none", res |-> <<>>]

GenInit ==
    /\ completed_permutations_ = {}
    /\ pc = "idle"
    /\ retries = 0
    /\ max_retries = 0
    /\ crash_state = <<>>
    /\ res = <<>>
    /\ log_crash_state = <<>>
    /\ ret = FALSE
    /\ new_state = TRUE
    /\ crash_state_hash = <<>>
    /\ returned = EmptyBag
    /\ sector_memoised = {}

\* A Permuter as constructed: no trace has been given to it.
Init ==
    /\ data = <<>>
    /\ cleared = 0
    /\ memo_at_init = {}
    /\ mode = "none"
    /\ epochs_ = <<>>
    /\ sector_size_ = 0
    /\ GenInit
    /\ NoSectorCalls

\* The first call is given any trace, a later call one of ReTraces.
TracesFor == IF mode = "none" THEN Traces ELSE ReTraces

Next ==
    \/ \E sector_size \in SectorSizes, d \in TracesFor :
          InitDataVector(sector_size, d)
    \/ \E sector_size \in SectorSizes, d \in TracesFor :
          InitDataVectorSoft(sector_size, d)

Spec == Init /\ [][Next]_vars

\* ------------------------------------------ crash-state generation
\* Lines 84-88: epoch_op::ToWriteData.
ToWriteData(eo) ==
    [is_whole_op |-> TRUE, bio_index |-> eo.abs_index, bio_sector_index |-> 0,
     disk_offset |-> eo.op.write_sector * kKernelSectorSize,
     size |-> eo.op.size, data |-> eo.op.data, data_buffer_offset |-> 0]

\* Lines 488-492: the hash of a whole-op proposal.
OpHash(cs) == [i \in 1..Len(cs) |-> cs[i].abs_index]

\* Lines 541-549: the hash of a sector proposal.
SectorHash(r) ==
    [i \in 1..(2 * Len(r)) |->
        IF i % 2 = 1 THEN r[(i + 1) \div 2].bio_index
        ELSE r[i \div 2].bio_sector_index]

MaxRetries_NoFloor(n) == kRetryMultiplier * n

\* Lines 481-484 and 534-537.
MaxRetries(n) ==
    IF kRetryMultiplier * n < kMinRetries THEN kMinRetries
    ELSE kRetryMultiplier * n

\* Lines 496 and 553: the break out of the do-while loop.
BreakLoop(ns, r, mx) == ~ns \/ r >= mx

MemoAfter_NoInsert(memo, hash, found) == memo

\* Lines 516-517 and 567-568.
MemoAfter(memo, hash, found) == IF ~found THEN memo \cup {hash} ELSE memo

ReturnValue_Fresh(found, ns) == ~found

\* Lines 516-524 and 567-575.
ReturnValue(found, ns) == IF ~found THEN ns ELSE FALSE

\* What the strategy hooks may propose.  The hash <<1, 0>> is that of a
\* whole-op state (ops 1 then 0) and of a sector state (sector 0 of op 1).
EpochOp(i) == [abs_index |-> i, op |-> W(i, 1, 1, {"WRITE"})]

SectorData(bio, sec) ==
    [is_whole_op |-> FALSE, bio_index |-> bio, bio_sector_index |-> sec,
     disk_offset |-> bio * kKernelSectorSize + sec, size |-> 1,
     data |-> 1 + bio, data_buffer_offset |-> sec]

OpProposals == {<<>>, <<EpochOp(1), EpochOp(0)>>}

SectorProposals == {<<>>, <<SectorData(1, 0)>>}

\* A memo as PrefillSize earlier calls leave it: the hashes of the whole-op
\* states <<2>>, <<3>>, ..., none of which the hooks propose again.
Prefill == {<<k>> : k \in 2..(PrefillSize + 1)}

\* One pass of the do-while loop of GenerateCrashState (lines 485-504),
\* entering the call first (lines 475-484) when none is running, and the
\* rest of the call (lines 506-524) when the pass leaves the loop.  The hook
\* returns ns and proposes cs.
GenerateCrashStatePass(ns, cs) ==
    /\ pc \in {"idle", "op"}
    /\ UNCHANGED sector_memoised
    /\  LET r == (IF pc = "idle" THEN 0 ELSE retries) + 1
            mx == IF pc = "idle"
                  THEN MaxRetries(Cardinality(completed_permutations_))
                  ELSE max_retries
            hash == OpHash(cs)
            found == hash \in completed_permutations_
        IN /\ new_state' = ns
           /\ crash_state_hash' = hash
           /\ IF ~BreakLoop(ns, r, mx) /\ found
              THEN /\ pc' = "op"
                   /\ retries' = r
                   /\ max_retries' = mx
                   /\ crash_state' = cs
                   /\ ret' = FALSE
                   /\ UNCHANGED <<completed_permutations_, res,
                                  log_crash_state, returned>>
              ELSE /\ pc' = "idle"
                   /\ retries' = 0
                   /\ max_retries' = 0
                   /\ crash_state' = <<>>
                   /\ res' = [i \in 1..Len(cs) |-> ToWriteData(cs[i])]
                   /\ log_crash_state' = res'
                   /\ completed_permutations_' =
                         MemoAfter(completed_permutations_, hash, found)
                   /\ ret' = ReturnValue(found, ns)
                   /\ returned' = IF ret' THEN returned (+) SetToBag({hash})
                                  ELSE returned
    /\ UNCHANGED <<segvars, secvars>>

GenerateCrashState ==
    \E ns \in BOOLEAN, cs \in OpProposals : GenerateCrashStatePass(ns, cs)

\* The same for GenerateSectorCrashState (lines 529-576); the hook returns
\* ns and writes its proposal sp into res.
GenerateSectorCrashStatePass(ns, sp) ==
    /\ pc \in {"idle", "sector"}
    /\  LET r == (IF pc = "idle" THEN 0 ELSE retries) + 1
            mx == IF pc = "idle"
                  THEN MaxRetries(Cardinality(completed_permutations_))
                  ELSE max_retries
            hash == SectorHash(sp)
            found == hash \in completed_permutations_
        IN /\ new_state' = ns
           /\ crash_state_hash' = hash
           /\ res' = sp
           /\ UNCHANGED crash_state
           /\ IF ~BreakLoop(ns, r, mx) /\ found
              THEN /\ pc' = "sector"
                   /\ retries' = r
                   /\ max_retries' = mx
                   /\ ret' = FALSE
                   /\ UNCHANGED <<completed_permutations_, log_crash_state,
                                  returned, sector_memoised>>
              ELSE /\ pc' = "idle"
                   /\ retries' = 0
                   /\ max_retries' = 0
                   /\ log_crash_state' = res'
                   /\ completed_permutations_' =
                         MemoAfter(completed_permutations_, hash, found)
                   /\ sector_memoised' =
                         sector_memoised
                            \cup (completed_permutations_'
                                     \ completed_permutations_)
                   /\ ret' = ReturnValue(found, ns)
                   /\ returned' = IF ret' THEN returned (+) SetToBag({hash})
                                  ELSE returned
    /\ UNCHANGED <<segvars, secvars>>

GenerateSectorCrashState ==
    \E ns \in BOOLEAN, sp \in SectorProposals :
        GenerateSectorCrashStatePass(ns, sp)

\* A Permuter whose memo is empty or holds the hashes of earlier calls.
GenSpecInit ==
    /\ data = <<>>
    /\ cleared = 0
    /\ memo_at_init = {}
    /\ mode = "none"
    /\ epochs_ = <<>>
    /\ sector_size_ = 0
    /\ completed_permutations_ \in {{}, Prefill}
    /\ returned = EmptyBag
    /\ sector_memoised = {}
    /\ pc = "idle"
    /\ retries = 0
    /\ max_retries = 0
    /\ new_state = TRUE
    /\ crash_state = <<>>
    /\ crash_state_hash = <<>>
    /\ res = <<>>
    /\ log_crash_state = <<>>
    /\ ret = FALSE
    /\ NoSectorCalls

GenNext == GenerateCrashState \/ GenerateSectorCrashState

GenSpec == GenSpecInit /\ [][GenNext]_vars

\* ------------------------------ generation between segmenter calls
\* The segmenters are given the traces of ReTraces; a hook reports a state
\* on the first pass of a call or none, and none on a second pass.
HookReturns == IF pc = "idle" THEN BOOLEAN ELSE {FALSE}

ReinitNext ==
    \/ \E d \in ReTraces : InitDataVector(kKernelSectorSize, d)
    \/ \E d \in ReTraces : InitDataVectorSoft(kKernelSectorSize, d)
    \/ \E ns \in HookReturns, cs \in OpProposals :
          GenerateCrashStatePass(ns, cs)
    \/ \E ns \in HookReturns, sp \in SectorProposals :
          GenerateSectorCrashStatePass(ns, sp)

ReinitSpec == Init /\ [][ReinitNext]_vars

\* ---------------------------------------------------------- sectors
\* An EpochOpSector is [parent, parent_sector_index, disk_offset, size,
\* max_sector_size]; parent is the epoch_op the pointer refers to.

\* disk_offset is an unsigned int (line 93), so it holds
\* kKernelSectorSize * write_sector + i * sector_size modulo 2^32.  2^32 is
\* beyond TLC's integers: 512 * x modulo 2^32 is 512 * (x modulo 2^23), and
\* the sum stays below 2^31 for the sectors and sizes the model draws.
SectorWrap == 8388608

DiskOffset(write_sector, i, sector_size) ==
    kKernelSectorSize * (write_sector % SectorWrap) + i * sector_size

\* Lines 61-82, for sector_size > 0.
ToSectors(eo, sector_size) ==
    LET num_sectors == (eo.op.size + (sector_size - 1)) \div sector_size
    IN [j \in 1..num_sectors |->
          LET i == j - 1 IN
          [parent |-> eo,
           parent_sector_index |-> i,
           disk_offset |-> DiskOffset(eo.op.write_sector, i, sector_size),
           size |-> IF i = num_sectors - 1
                    THEN eo.op.size - i * sector_size
                    ELSE sector_size,
           max_sector_size |-> sector_size]]

\* Lines 127-131: EpochOpSector::ToWriteData.
SectorToWriteData(sec) ==
    [is_whole_op |-> FALSE, bio_index |-> sec.parent.abs_index,
     bio_sector_index |-> sec.parent_sector_index,
     disk_offset |-> sec.disk_offset, size |-> sec.size,
     data |-> sec.parent.op.data,
     data_buffer_offset |-> sec.max_sector_size * sec.parent_sector_index]

Reverse(s) == [i \in 1..Len(s) |-> s[Len(s) + 1 - i]]

\* Lines 590-596: the pass over sector_list from position i down to 1.
RECURSIVE CoalesceScan(_, _, _, _)
CoalesceScan(sector_list, i, found, sector_offsets) ==
    IF i = 0 THEN found
    ELSE IF sector_list[i].disk_offset \notin sector_offsets
         THEN CoalesceScan(sector_list, i - 1, Append(found, sector_list[i]),
                           sector_offsets \cup {sector_list[i].disk_offset})
         ELSE CoalesceScan(sector_list, i - 1, found, sector_offsets)

CoalesceSectors_KeepFirst(sector_list) ==
    Reverse(CoalesceScan(Reverse(sector_list), Len(sector_list), <<>>, {}))

\* Lines 578-604.
CoalesceSectors(sector_list) ==
    Reverse(CoalesceScan(sector_list, Len(sector_list), <<>>, {}))

\* The epoch_ops ToSectors is called on, and its arguments.
SectorOp(i, sector, size) ==
    [abs_index |-> i, op |-> W(sector, size, 1, {"WRITE"})]

SectorOps ==
    {SectorOp(0, 0, 1024), SectorOp(3, 0, 0), SectorOp(4, 1, 3),
     SectorOp(5, 2, 1500), SectorOp(6, SectorWrap + 1, 1)}

SectorArgs == {0, 1, 2, 512}

\* The sectors CoalesceSectors is given lists of: both sectors of op 0, and
\* the sectors of ops 1 and 2, whose offsets are those of op 0's sectors.
SectorPool ==
    {ToSectors(SectorOp(0, 0, 1024), 512)[1],
     ToSectors(SectorOp(0, 0, 1024), 512)[2],
     ToSectors(SectorOp(1, 1, 512), 512)[1],
     ToSectors(SectorOp(2, SectorWrap, 512), 512)[1]}

SectorLists == UNION {[1..n -> SectorPool] : n \in 0..MaxSectors}

\* A call of eo.ToSectors(sector_size).  With sector_size 0 the division of
\* line 63 is undefined: the build traps on it, or goes on with the quotient
\* 0 and returns no sectors.
ToSectorsCall(eo, sector_size) ==
    /\ sector_size > 0 =>
          (eo.op.size + (sector_size - 1)) \div sector_size <= MaxSectors
    /\ IF sector_size = 0
       THEN \E outcome \in {"trapped", "returned"} :
               to_sectors' = [eo |-> eo, sector_size |-> sector_size,
                              status |-> outcome, res |-> <<>>,
                              write_data |-> <<>>]
       ELSE LET r == ToSectors(eo, sector_size) IN
            to_sectors' = [eo |-> eo, sector_size |-> sector_size,
                           status |-> "returned", res |-> r,
                           write_data |->
                               [j \in 1..Len(r) |-> SectorToWriteData(r[j])]]
    /\ UNCHANGED <<segvars, genvars, coalesce>>

CoalesceSectorsCall(sector_list) ==
    /\ coalesce' = [sector_list |-> sector_list, status |-> "returned",
                    res |-> CoalesceSectors(sector_list)]
    /\ UNCHANGED <<segvars, genvars, to_sectors>>

SectorNext ==
    \/ \E eo \in SectorOps, sector_size \in SectorArgs :
          ToSectorsCall(eo, sector_size)
    \/ \E sector_list \in SectorLists : CoalesceSectorsCall(sector_list)

SectorSpec == Init /\ [][SectorNext]_vars

\* ============================================================ claims
\* What the claims speak of, in terms of the trace and the epoch vector.
RECURSIVE AllOps(_)
AllOps(eps) == IF eps = <<>> THEN <<>> ELSE Head(eps).ops \o AllOps(Tail(eps))

Max(a, b) == IF a >= b THEN a ELSE b
Min(a, b) == IF a <= b THEN a ELSE b

\* [write_sector, write_sector + size - 1] of two ops have a sector in common.
Intersect(a, b) ==
    Max(a.write_sector, b.write_sector)
        <= Min(a.write_sector + a.size - 1, b.write_sector + b.size - 1)

SomePairIntersects(ops) ==
    \E i, j \in 1..Len(ops) : i < j /\ Intersect(ops[i].op, ops[j].op)

\* The splittable-barrier predicate as the specification words it.
Splittable(r) ==
    /\ "FLUSH" \in r.flags \/ "FLUSH_SEQ" \in r.flags
    /\ "WRITE" \in r.flags
    /\ "FUA" \notin r.flags
    /\ r.size > 0

\* The positions in the concatenated ops that carry trace index i (0-based).
Places(ops, i) == {p \in 1..Len(ops) : ops[p].abs_index = i}

\* The last record before position i (1-based) that is no checkpoint; 0 if none.
PrevRecord(d, i) ==
    LET c == {j \in 1..(i - 1) : ~is_checkpoint(d[j])}
    IN IF c = {} THEN 0 ELSE CHOOSE j \in c : \A k \in c : k <= j

\* The soft-gap condition for the write at position i, read off the trace.
GapBefore(d, i) ==
    LET j == PrevRecord(d, i) IN
    /\ j > 0
    /\ ~is_barrier(d[j])
    /\ d[j].time_ns > 0
    /\ d[i].time_ns - d[j].time_ns >= kSoftEpochMaxDelay

IsWrite(r) == ~is_checkpoint(r) /\ ~is_barrier(r)

\* The write at position i is the first op of an epoch that follows an
\* epoch without a barrier.
StartsNewEpoch(eps, i) ==
    \E k \in 2..Len(eps) :
        /\ Len(eps[k].ops) > 0
        /\ eps[k].ops[1].abs_index = i - 1
        /\ ~eps[k - 1].has_barrier

\* Epoch k was opened by a soft time gap.
OpenedByGap(d, eps, k) ==
    /\ Len(eps[k].ops) > 0
    /\ LET i == eps[k].ops[1].abs_index + 1
       IN IsWrite(d[i]) /\ GapBefore(d, i)

NumCheckpoints(d, n) == Cardinality({j \in 1..n : is_checkpoint(d[j])})

\* C1: no hash is that of two calls that returned true, whichever of the
\* two generators made them.
C1_NeverReturnedTwice ==
    \A h \in BagToSet(returned) : CopiesIn(h, returned) = 1

\* Two states were returned, and a later proposal of one of them was
\* turned down.
C1_Witness ==
    /\ pc = "idle"
    /\ CopiesIn(<<1, 0>>, returned) = 1
    /\ CopiesIn(<<>>, returned) = 1
    /\ crash_state_hash = <<1, 0>>
    /\ res = <<SectorData(1, 0)>>
    /\ ~ret

\* C7: with max_retries = max(1000, 2 * |memo| at the start of the call),
\* every invocation of the hook is within max_retries invocations of its
\* call, and the hook is invoked again only after a proposal with new_state
\* whose hash is in the memo.
C7_BoundedRetries ==
    [][LET n == IF pc = "idle" THEN 0 ELSE retries
           mx == IF pc = "idle"
                 THEN Max(1000, 2 * Cardinality(completed_permutations_))
                 ELSE max_retries
       IN /\ n + 1 <= mx
          /\ pc' # "idle" =>
                /\ retries' = n + 1
                /\ max_retries' = mx
                /\ new_state'
                /\ crash_state_hash' \in completed_permutations_
                /\ completed_permutations_' = completed_permutations_
      ]_vars

\* The hook has been invoked 1001 times in a call whose budget is twice the
\* size of the memo, and is about to be invoked for the last time.
C7_Witness ==
    /\ pc = "op"
    /\ max_retries = 2 * Cardinality(completed_permutations_)
    /\ max_retries > 1000
    /\ retries = max_retries - 1

\* C8: a call whose last proposal has a hash that is not in the memo inserts
\* it and returns the hook's new_state; one whose last proposal has a hash
\* in the memo leaves the memo as it is and returns false; the memo never
\* shrinks, grows by at most one entry, and log.crash_state is the crash
\* state handed back.
C8_InsertAndReturn ==
    [][/\ pc' = "idle" =>
             /\ IF crash_state_hash' \notin completed_permutations_
                THEN /\ completed_permutations_' =
                           completed_permutations_ \cup {crash_state_hash'}
                     /\ ret' = new_state'
                ELSE /\ completed_permutations_' = completed_permutations_
                     /\ ret' = FALSE
             /\ log_crash_state' = res'
       /\ pc' # "idle" => completed_permutations_' = completed_permutations_
      ]_vars

\* The empty state proposed with new_state false on a fresh Permuter.
C8_Witness ==
    /\ pc = "idle"
    /\ completed_permutations_ = {<<>>}
    /\ crash_state_hash = <<>>
    /\ ~new_state
    /\ ~ret
    /\ res = <<>>
    /\ log_crash_state = <<>>

\* C2: after either segmentation, overlaps of every epoch is true exactly
\* when two ops of the epoch (barrier, split halves and zero-sized ops
\* included) have intersecting sector ranges.
C2_OverlapsIffPairIntersects ==
    mode # "none" =>
        \A k \in 1..Len(epochs_) :
            epochs_[k].overlaps <=> SomePairIntersects(epochs_[k].ops)

\* C3 (as claimed): after either segmentation every epoch but the last has
\* has_barrier.
C3_AllButLastHaveBarrier ==
    mode # "none" =>
        \A k \in 1..(Len(epochs_) - 1) : epochs_[k].has_barrier

\* C3 (amended): after InitDataVector every epoch but the last has
\* has_barrier; after InitDataVectorSoft every epoch but the last has
\* has_barrier unless the epoch after it was opened by a soft time gap.
C3_BarrierUnlessSoftGap ==
    /\ mode = "flag" =>
        \A k \in 1..(Len(epochs_) - 1) : epochs_[k].has_barrier
    /\ mode = "soft" =>
        \A k \in 1..(Len(epochs_) - 1) :
            epochs_[k].has_barrier \/ OpenedByGap(data, epochs_, k + 1)

C3_Witness ==
    /\ mode = "soft"
    /\ Len(epochs_) = 3
    /\ ~epochs_[1].has_barrier
    /\ OpenedByGap(data, epochs_, 2)
    /\ epochs_[2].has_barrier

\* C4: the concatenated ops have non-decreasing abs_index; a record that is
\* no checkpoint and is not split appears once, a split barrier twice
\* (adjacent, the flush half first), a checkpoint never, and nothing else
\* appears.
C4_IndicesCoverTrace ==
    mode # "none" =>
        LET ops == AllOps(epochs_) IN
        /\ \A p \in 1..(Len(ops) - 1) : ops[p].abs_index <= ops[p + 1].abs_index
        /\ \A p \in 1..Len(ops) : ops[p].abs_index \in 0..(Len(data) - 1)
        /\ \A i \in 0..(Len(data) - 1) :
              LET r == data[i + 1]
                  at == Places(ops, i)
              IN IF is_checkpoint(r) THEN at = {}
                 ELSE IF Splittable(r)
                 THEN \E p \in 1..(Len(ops) - 1) :
                         /\ at = {p, p + 1}
                         /\ ops[p].op.size = 0
                         /\ is_barrier(ops[p].op)
                         /\ ops[p + 1].op.size = r.size
                         /\ ~is_barrier(ops[p + 1].op)
                 ELSE Cardinality(at) = 1

C4_Witness ==
    /\ mode = "flag"
    /\ Len(data) = 3
    /\ is_checkpoint(data[1])
    /\ Splittable(data[2])
    /\ IsWrite(data[3])
    /\ Len(AllOps(epochs_)) = 3

\* C5: a record is split exactly when it is (FLUSH or FLUSH_SEQ) and WRITE
\* and not FUA and of size > 0; the first half is the record with size 0 and
\* no data, the second half the record with FLUSH and FLUSH_SEQ cleared, and
\* both carry the record's abs_index.
C5_SplitExactlyWhenSplittable ==
    mode # "none" =>
        LET ops == AllOps(epochs_) IN
        \A i \in 0..(Len(data) - 1) :
            LET r == data[i + 1]
                at == Places(ops, i)
            IN ~is_checkpoint(r) =>
                /\ Cardinality(at) = 2 <=> Splittable(r)
                /\ Cardinality(at) = 2 =>
                      \E p \in at :
                         /\ p + 1 \in at
                         /\ ops[p].op = [r EXCEPT !.size = 0, !.data = 0]
                         /\ ops[p].op.flags = r.flags
                         /\ ops[p + 1].op =
                               [r EXCEPT !.flags = @ \ {"FLUSH", "FLUSH_SEQ"}]
                         /\ ops[p + 1].op.data = r.data
                         /\ ops[p + 1].op.size = r.size
                /\ Cardinality(at) # 2 => \A p \in at : ops[p].op = r

C5_Witness ==
    /\ mode = "soft"
    /\ Len(data) = 2
    /\ data[1].flags = {"WRITE", "FLUSH", "FLUSH_SEQ", "META"}
    /\ data[2].flags = {"WRITE", "FLUSH", "FUA"}
    /\ Len(AllOps(epochs_)) = 3

\* C6: has_barrier of an epoch is true exactly when its last op is a barrier
\* record, and no op before the last of an epoch is a barrier record.
C6_HasBarrierIffClosedByBarrier ==
    mode # "none" =>
        \A k \in 1..Len(epochs_) :
            LET ops == epochs_[k].ops IN
            /\ epochs_[k].has_barrier <=>
                  (Len(ops) > 0 /\ is_barrier(ops[Len(ops)].op))
            /\ \A p \in 1..(Len(ops) - 1) : ~is_barrier(ops[p].op)

C6_Witness ==
    /\ mode = "flag"
    /\ Len(epochs_) = 2
    /\ Len(epochs_[1].ops) = 2
    /\ epochs_[1].has_barrier
    /\ Len(epochs_[2].ops) = 2
    /\ ~epochs_[2].has_barrier

\* C9: in soft segmentation a write that is no barrier starts a new epoch
\* (first op of an epoch whose predecessor has no barrier) exactly when the
\* last record before it that is no checkpoint is a write that is no
\* barrier, with a timestamp > 0 that is at least the soft-epoch delay older.
C9_SoftGapIffNewEpoch ==
    mode = "soft" =>
        \A i \in 1..Len(data) :
            IsWrite(data[i]) =>
                (StartsNewEpoch(epochs_, i) <=> GapBefore(data, i))

C9_Witness ==
    /\ mode = "soft"
    /\ Len(data) = 3
    /\ IsWrite(data[1]) /\ IsWrite(data[2]) /\ IsWrite(data[3])
    /\ GapBefore(data, 2) /\ StartsNewEpoch(epochs_, 2)
    /\ ~GapBefore(data, 3) /\ ~StartsNewEpoch(epochs_, 3)

\* What C10 says of one record: a is the walk before it, b the walk after
\* it, k the number of checkpoint records seen once it is processed.
C10_Record(a, b, rec, k) ==
    LET last == Len(a.epochs) IN
    /\ Len(b.epochs) >= last
    /\ IF is_checkpoint(rec)
       THEN /\ b.curr_checkpoint_epoch = a.curr_checkpoint_epoch + 1
            /\ Len(b.epochs) = last
            /\ \A j \in 1..(last - 1) :
                  b.epochs[j].checkpoint_epoch = a.epochs[j].checkpoint_epoch
            /\ b.epochs[last].checkpoint_epoch =
                  IF Len(a.epochs[last].ops) = 0
                  THEN k - 1
                  ELSE a.epochs[last].checkpoint_epoch
       ELSE /\ b.curr_checkpoint_epoch = a.curr_checkpoint_epoch
            /\ \A j \in 1..last :
                  b.epochs[j].checkpoint_epoch = a.epochs[j].checkpoint_epoch
    /\ \A j \in (last + 1)..Len(b.epochs) :
          k >= 1 => b.epochs[j].checkpoint_epoch = k - 1

\* The soft walk after 0, 1, ..., n records of d, as a sequence.
SoftWalksNext(walks, rec) == Append(walks, SoftStep(walks[Len(walks)], rec))

RECURSIVE SoftWalks(_, _)
SoftWalks(d, n) ==
    IF n = 0 THEN <<SoftStart>> ELSE SoftWalksNext(SoftWalks(d, n - 1), d[n])

\* The same with the walk after n records at n.
WalkTable(walks) == [n \in 0..(Len(walks) - 1) |-> walks[n + 1]]

\* What C10 says of a walk: walk[n] is the walk after n of the N records.
C10_Walk(walk, N) ==
    /\ \A n \in 1..N :
          C10_Record(walk[n - 1], walk[n], data[n], NumCheckpoints(data, n))
    /\ \A n \in 0..N : \A j \in 1..Len(walk[n].epochs) :
          Len(walk[n].epochs[j].ops) > 0 =>
              /\ \A m \in n..N :
                    walk[m].epochs[j].checkpoint_epoch
                        = walk[n].epochs[j].checkpoint_epoch
              /\ j <= Len(epochs_)
              /\ epochs_[j].checkpoint_epoch
                    = walk[n].epochs[j].checkpoint_epoch

\* C10: in soft segmentation a checkpoint record always increments the
\* checkpoint counter and changes the checkpoint_epoch of the current epoch
\* only if that epoch has no ops; nothing else changes the checkpoint_epoch
\* of an epoch that exists, an epoch that has an op keeps its
\* checkpoint_epoch to the end, and an epoch opened after k >= 1 checkpoint
\* records starts with checkpoint_epoch k - 1.
C10_SoftCheckpointAttachment ==
    mode = "soft" =>
        C10_Walk(WalkTable(SoftWalks(data, Len(data))), Len(data))

\* A checkpoint that arrives once the epoch has an op, then a time gap: the
\* first epoch keeps its checkpoint_epoch, the second starts with id 0.
C10_Witness ==
    /\ mode = "soft"
    /\ Len(data) = 3
    /\ IsWrite(data[1]) /\ is_checkpoint(data[2]) /\ IsWrite(data[3])
    /\ GapBefore(data, 3)
    /\ Len(epochs_) = 2
    /\ epochs_[1].checkpoint_epoch = SoftStart.epochs[1].checkpoint_epoch
    /\ epochs_[2].checkpoint_epoch = 0

\* The trace holds no checkpoint record.
NoCheckpointRecords(d) == NumCheckpoints(d, Len(d)) = 0

\* No write of the trace that is no barrier satisfies the soft-gap condition.
NoSoftGap(d) == \A i \in 1..Len(d) : IsWrite(d[i]) => ~GapBefore(d, i)

\* An epoch without its checkpoint_epoch.
EpochBody(e) ==
    [ops |-> e.ops, has_barrier |-> e.has_barrier, overlaps |-> e.overlaps,
     num_meta |-> e.num_meta]

EpochBodies(eps) == [k \in 1..Len(eps) |-> EpochBody(eps[k])]

\* C11: after either segmentation of a trace without checkpoint records,
\* every epoch (the first one included) has checkpoint_epoch -1.
C11_NoCheckpointMeansMinusOne ==
    mode # "none" /\ NoCheckpointRecords(data) =>
        \A k \in 1..Len(epochs_) : epochs_[k].checkpoint_epoch = -1

\* C12: for a trace without checkpoint records in which no write satisfies
\* the soft-gap condition, InitDataVectorSoft leaves as many epochs as
\* InitDataVector does, with the same ops, has_barrier, overlaps and
\* num_meta in each.
C12_SoftEqualsFlagWithoutGaps ==
    mode = "soft" /\ NoCheckpointRecords(data) /\ NoSoftGap(data) =>
        EpochBodies(epochs_) = EpochBodies(FlagWalk(data, Len(data)).epochs)

\* C13 (as claimed): either segmentation of the empty trace leaves no epoch.
C13_EmptyTraceNoEpochs ==
    mode # "none" /\ data = <<>> => epochs_ = <<>>

\* C13 (amended): whatever epochs were held before, InitDataVector of the
\* empty trace leaves no epoch, and InitDataVectorSoft of the empty trace
\* leaves exactly one epoch, which has no ops, no barrier, no overlap and
\* no metadata.
C13_EmptyTraceFlagNoneSoftOne ==
    data = <<>> =>
        /\ mode = "flag" => epochs_ = <<>>
        /\ mode = "soft" =>
              /\ Len(epochs_) = 1
              /\ EpochBody(epochs_[1]) = EpochBody(NewEpoch)

\* The empty trace given to a Permuter that held three epochs or more.
C13_Witness ==
    /\ data = <<>>
    /\ cleared >= 3
    /\ mode = "flag"
    /\ epochs_ = <<>>

\* The positions of a sector list that no later position shares its
\* disk_offset with.
LatestAt(sl) ==
    {i \in 1..Len(sl) :
        \A j \in (i + 1)..Len(sl) : sl[j].disk_offset # sl[i].disk_offset}

\* The k-th smallest element of a set of positions.
NthOf(S, k) == CHOOSE i \in S : Cardinality({j \in S : j < i}) = k - 1

Offsets(sl) == {sl[i].disk_offset : i \in 1..Len(sl)}

\* C14: CoalesceSectors returns the subsequence of its input made of the
\* elements that no later element shares its disk_offset with: the output
\* has pairwise distinct disk_offsets, one element for every disk_offset of
\* the input, in input order; coalescing the output again changes nothing,
\* and the sectors of a single op come back as they are.
C14_CoalesceKeepsLatestPerOffset ==
    coalesce.status = "returned" =>
        LET sl == coalesce.sector_list
            out == coalesce.res
            keep == LatestAt(sl)
        IN /\ Len(out) = Cardinality(keep)
           /\ \A k \in 1..Len(out) : out[k] = sl[NthOf(keep, k)]
           /\ \A a, b \in 1..Len(out) :
                 a # b => out[a].disk_offset # out[b].disk_offset
           /\ Offsets(out) = Offsets(sl)
           /\ CoalesceSectors(out) = out
           /\ \A eo \in SectorOps, sector_size \in SectorArgs \ {0} :
                 sl = ToSectors(eo, sector_size) => out = sl

\* Three sectors of three ops, the first and the last at one disk_offset:
\* the last two come back.
C14_Witness ==
    /\ coalesce.status = "returned"
    /\ Len(coalesce.sector_list) = 3
    /\ coalesce.sector_list[1].disk_offset = coalesce.sector_list[3].disk_offset
    /\ coalesce.sector_list[1].parent # coalesce.sector_list[3].parent
    /\ coalesce.sector_list[2].disk_offset # coalesce.sector_list[3].disk_offset
    /\ coalesce.res = SubSeq(coalesce.sector_list, 2, 3)

\* x = 512 * sector + rest, stated without forming 512 * sector.
Is512TimesPlus(x, sector, rest) ==
    /\ x - rest >= 0
    /\ (x - rest) % 512 = 0
    /\ (x - rest) \div 512 = sector

\* ceil(size / sector_size) for sector_size > 0.
CeilDiv(size, sector_size) ==
    CHOOSE n \in 0..size :
        /\ n * sector_size >= size
        /\ n > 0 => (n - 1) * sector_size < size

RECURSIVE SumSizes(_)
SumSizes(sl) == IF sl = <<>> THEN 0 ELSE Head(sl).size + SumSizes(Tail(sl))

\* C15: for sector_size > 0, ToSectors returns n = ceil(size / sector_size)
\* sectors; sector i has parent_sector_index i, disk_offset
\* 512 * write_sector + i * sector_size, size sector_size (the last one what
\* is left); the sizes add up to the op's size; the DiskWriteData of sector
\* i has is_whole_op false, bio_index the parent's abs_index,
\* bio_sector_index i and data_buffer_offset i * sector_size, which is
\* disk_offset - 512 * write_sector.
C15_ToSectorsDecomposition ==
    to_sectors.status # "none" /\ to_sectors.sector_size > 0 =>
        LET eo == to_sectors.eo
            sector_size == to_sectors.sector_size
            r == to_sectors.res
            wd == to_sectors.write_data
            n == CeilDiv(eo.op.size, sector_size)
        IN /\ to_sectors.status = "returned"
           /\ Len(r) = n
           /\ Len(wd) = n
           /\ SumSizes(r) = eo.op.size
           /\ \A j \in 1..Len(r) :
                 LET i == j - 1 IN
                 /\ r[j].parent_sector_index = i
                 /\ Is512TimesPlus(r[j].disk_offset, eo.op.write_sector,
                                   i * sector_size)
                 /\ r[j].size = IF i < n - 1 THEN sector_size
                                ELSE eo.op.size - (n - 1) * sector_size
                 /\ ~wd[j].is_whole_op
                 /\ wd[j].bio_index = eo.abs_index
                 /\ wd[j].bio_sector_index = i
                 /\ wd[j].data_buffer_offset = i * sector_size
                 /\ Is512TimesPlus(wd[j].disk_offset, eo.op.write_sector,
                                   wd[j].data_buffer_offset)

\* C16: a ToSectors call with sector_size 0 ends in a contract violation and
\* returns no sector list; and an op pair that a segmentation made by
\* splitting comes from a record that satisfies the splittable predicate.
C16_ZeroSectorSizeIsRejected ==
    /\ to_sectors.status # "none" /\ to_sectors.sector_size = 0 =>
          to_sectors.status \notin {"returned"}
    /\ mode # "none" =>
          \A i \in 0..(Len(data) - 1) :
              Cardinality(Places(AllOps(epochs_), i)) = 2 =>
                  Splittable(data[i + 1])

\* No record of d at positions a..b is a barrier, and in soft mode no write
\* among them satisfies the soft-gap condition.
StaysOpen(d, a, b) ==
    \A j \in a..b :
        /\ ~is_barrier(d[j])
        /\ mode = "soft" /\ IsWrite(d[j]) => ~GapBefore(d, j)

\* What C17 says of the splittable barrier at position i of the trace, with
\* epoch k the one it closes.
C17_Split(i, k) ==
    LET closed == epochs_[k]
        next == epochs_[k + 1]
    IN /\ closed.has_barrier
       /\ closed.ops[Len(closed.ops)].abs_index = i - 1
       /\ closed.ops[Len(closed.ops)].op.size = 0
       /\ is_barrier(closed.ops[Len(closed.ops)].op)
       /\ next.ops[1].abs_index = i - 1
       /\ next.ops[1].op.size = data[i].size
       /\ next.ops[1].op.data = data[i].data
       /\ ~is_barrier(next.ops[1].op)
       /\ \A j \in (i + 1)..Len(data) :
             IsWrite(data[j]) /\ StaysOpen(data, i + 1, j) =>
                 /\ \E p \in 2..Len(next.ops) :
                       /\ next.ops[p].abs_index = j - 1
                       /\ next.ops[p].op = data[j]
                 /\ Intersect(data[i], data[j]) => next.overlaps

\* C17: after either segmentation, the flush half of a split barrier is the
\* last op of an epoch with has_barrier, its data half the first op of the
\* epoch right after it, the writes that follow it in the trace with no
\* barrier (in soft mode: and no soft gap) in between are ops of that same
\* epoch, and that epoch has overlaps if one of them intersects the data half.
C17_SplitHalvesAndOpenEpoch ==
    mode # "none" =>
        \A i \in 1..Len(data) :
            Splittable(data[i]) =>
                \E k \in 1..(Len(epochs_) - 1) :
                    /\ Len(epochs_[k].ops) > 0
                    /\ Len(epochs_[k + 1].ops) > 0
                    /\ C17_Split(i, k)

\* A write, a split barrier and a write that intersects its data half: the
\* second epoch holds the data half and the write, and has overlaps.
C17_Witness ==
    /\ mode = "flag"
    /\ Len(data) = 3
    /\ IsWrite(data[1]) /\ Splittable(data[2]) /\ IsWrite(data[3])
    /\ Intersect(data[2], data[3])
    /\ Len(epochs_) = 2
    /\ Len(epochs_[1].ops) = 2
    /\ Len(epochs_[2].ops) = 2
    /\ epochs_[2].overlaps

\* What C18 says of the checkpoint record that takes the walk from a to b:
\* the epoch current at that point is the last one of a, or a new one when
\* current_epoch is NULL.
C18_Record(a, b) ==
    LET current == IF a.current THEN Back(a.epochs) ELSE NewEpoch
        before == IF a.current
                  THEN SubSeq(a.epochs, 1, Len(a.epochs) - 1)
                  ELSE a.epochs
    IN /\ b.curr_checkpoint_epoch = a.curr_checkpoint_epoch + 1
       /\ b.abs_index = a.abs_index + 1
       /\ b.epochs = Append(before, [current EXCEPT !.checkpoint_epoch =
                                        b.curr_checkpoint_epoch])

\* The number of checkpoint records before the record that closes epoch k
\* (before the end of the trace for an epoch that no barrier closes).
CheckpointsBeforeClose(d, eps, k) ==
    IF eps[k].has_barrier
    THEN NumCheckpoints(d, eps[k].ops[Len(eps[k].ops)].abs_index)
    ELSE NumCheckpoints(d, Len(d))

C18_Walk(walk, N) ==
    \A n \in 1..N : is_checkpoint(data[n]) => C18_Record(walk[n - 1], walk[n])

\* C18: in flag-only segmentation a checkpoint record increments the
\* checkpoint counter, overwrites checkpoint_epoch of the current epoch
\* whether or not it holds ops, changes no ops and advances abs_index by
\* one; after the walk the checkpoint_epoch of every epoch is the number of
\* checkpoint records before the record that closes it, minus one.
C18_FlagCheckpointOverwrites ==
    mode = "flag" =>
        /\ C18_Walk([n \in 0..Len(data) |-> FlagWalk(data, n)], Len(data))
        /\ \A p \in 1..Len(AllOps(epochs_)) :
              ~is_checkpoint(AllOps(epochs_)[p].op)
        /\ \A k \in 1..Len(epochs_) :
              epochs_[k].checkpoint_epoch
                  = CheckpointsBeforeClose(data, epochs_, k) - 1

\* A checkpoint after a write: the epoch that holds the write gets id 0.
C18_Witness ==
    /\ mode = "flag"
    /\ Len(data) = 3
    /\ IsWrite(data[1]) /\ is_checkpoint(data[2]) /\ is_barrier(data[3])
    /\ ~Splittable(data[3])
    /\ Len(epochs_) = 1
    /\ Len(epochs_[1].ops) = 2
    /\ epochs_[1].checkpoint_epoch = 0

\* C19: after either segmentation of a non-empty trace without checkpoint
\* records no epoch has an empty ops list; a trace that is one barrier that
\* is not split gives one epoch with one op, has_barrier and no overlaps;
\* and a trace that ends with a barrier that is not split leaves no empty
\* last epoch.
C19_NoEmptyEpochWithoutCheckpoints ==
    mode # "none" /\ data # <<>> /\ NoCheckpointRecords(data) =>
        /\ \A k \in 1..Len(epochs_) : Len(epochs_[k].ops) > 0
        /\ Len(data) = 1 /\ is_barrier(data[1]) /\ ~Splittable(data[1]) =>
              /\ Len(epochs_) = 1
              /\ Len(epochs_[1].ops) = 1
              /\ epochs_[1].has_barrier
              /\ ~epochs_[1].overlaps
        /\ is_barrier(data[Len(data)]) /\ ~Splittable(data[Len(data)]) =>
              /\ Len(epochs_) > 0
              /\ Len(Back(epochs_).ops) > 0

\* C20: after either segmentation checkpoint_epoch does not decrease along
\* the epoch vector and lies between -1 and the number of checkpoint
\* records of the trace minus one.
C20_CheckpointEpochMonotone ==
    mode # "none" =>
        /\ \A k \in 1..(Len(epochs_) - 1) :
              epochs_[k].checkpoint_epoch <= epochs_[k + 1].checkpoint_epoch
        /\ \A k \in 1..Len(epochs_) :
              /\ epochs_[k].checkpoint_epoch >= -1
              /\ epochs_[k].checkpoint_epoch
                    <= NumCheckpoints(data, Len(data)) - 1

\* A step is a pass of GenerateSectorCrashState, of GenerateCrashState (a
\* pass that ends a call with the empty state is one of either).
SectorPass ==
    /\ pc \in {"idle", "sector"}
    /\ pc' \in {"idle", "sector"}
    /\ pc = "idle" /\ pc' = "idle" /\ res' # <<>> => ~res'[1].is_whole_op

OpPass ==
    /\ pc \in {"idle", "op"}
    /\ pc' \in {"idle", "op"}
    /\ pc = "idle" /\ pc' = "idle" /\ res' # <<>> => res'[1].is_whole_op

\* C21: a pass of GenerateSectorCrashState finds the hash of its proposal in
\* the memo only if a GenerateSectorCrashState call put it there, and a pass
\* of GenerateCrashState only if a GenerateCrashState call did.
C21_NoCrossModeDuplicates ==
    [][LET found == crash_state_hash' \in completed_permutations_ IN
       /\ SectorPass /\ found => crash_state_hash' \in sector_memoised
       /\ OpPass /\ found => crash_state_hash' \notin sector_memoised
      ]_vars


\* What a segmenter leaves in epochs_ when it is given the trace d.
EpochsOf(m, d) ==
    IF m = "flag" THEN FlagWalk(d, Len(d)).epochs
    ELSE IF m = "soft" THEN SoftFinish(SoftWalk(d, Len(d)).epochs)
    ELSE <<>>

\* A step is a call of InitDataVector or of InitDataVectorSoft: no other
\* changes what the segmenters write.
SegmenterCall == segvars' # segvars

\* A step is a pass of a generator whose proposal has a hash that was in
\* the memo when the latest segmenter call was made.
PassOnMemoisedBeforeInit ==
    /\ segvars' = segvars
    /\ mode # "none"
    /\ crash_state_hash' \in memo_at_init

\* C22: a call of InitDataVector or InitDataVectorSoft leaves in epochs_
\* what the trace it was given determines, whatever epochs_ held, and leaves
\* the memo as it was; a later proposal whose hash was in the memo before
\* that call is a duplicate: the pass is repeated or the call returns false,
\* and nothing is added to the memo or to what was returned.
C22_ReinitReplacesEpochsKeepsMemo ==
    [][/\ SegmenterCall =>
            /\ epochs_' = EpochsOf(mode', data')
            /\ completed_permutations_' = completed_permutations_
       /\ PassOnMemoisedBeforeInit =>
            /\ crash_state_hash' \in completed_permutations_
            /\ ~ret'
            /\ completed_permutations_' = completed_permutations_
            /\ returned' = returned
      ]_vars

\* A segmenter was given the empty trace after another trace had left two
\* epochs, and a pass of GenerateCrashState then proposed a state that a
\* call of GenerateCrashState had memoised before; the pass is repeated.
C22_Witness ==
    /\ data = <<>>
    /\ cleared = 2
    /\ pc = "op"
    /\ new_state
    /\ crash_state_hash \in memo_at_init \ sector_memoised

=============================================================================
